---- MODULE Spec2Model ----
(***************************************************************************)
(* State-machine model of MaxLLMChatbot (src/assit/script.js): the live    *)
(* chat history, the localStorage snapshot and session-id slots, the       *)
(* IndexedDB record store, the context-window builder and the history      *)
(* reconstruction.                                                         *)
(*                                                                         *)
(* Environment assumptions: localStorage is available and never throws;    *)
(* a write through an open IndexedDB handle succeeds; a page reload drops  *)
(* the pending provider request together with the old object.              *)
(***************************************************************************)
EXTENDS Integers, Sequences, FiniteSets, TLC

VARIABLES
    apiKey,          \* this.apiKey is set (window.MAXLLM_API_KEY)
    currentModel,    \* this.currentModel
    chatHistory,     \* this.chatHistory: sequence of [role, content]
    isLoading,       \* this.isLoading
    db,              \* this.db: "null" or "open"
    sessionId,       \* this.sessionId
    lsSessionId,     \* localStorage['maxllm_session_id']
    lsData,          \* localStorage['maxllm_data']
    store,           \* object store chat_records, in ascending id order
    nextId,          \* the store's autoIncrement key generator
    engine,          \* IndexedDB in this browser: "available", "missing", "failing"
    openReq,         \* the indexedDB.open request: "none" or "pending"
    inFlight,        \* a callOpenRouterAPI promise is pending
    outgoing,        \* the messages handed to the pending callOpenRouterAPI
    now,             \* the reading of Date.now()
    lastOp,          \* history variable: the step that came last: "clearChat", "send",
                     \* "sendRejected", "reply", "failure", or "other" for the rest
    log,             \* history variable: the addMessage calls since the last clearChat / reload
    resumed,         \* history variable: a reload happened since the last clearChat
    persistedFrom,   \* history variable: chatHistory index after which every turn was added with db open
    threw            \* history variable: a handler raised an uncaught error

vars == <<apiKey, currentModel, chatHistory, isLoading, db, sessionId, lsSessionId,
          lsData, store, nextId, engine, openReq, inFlight, outgoing, now,
          lastOp, log, resumed, persistedFrom, threw>>

(***************************************************************************)
(* Bounds of the model                                                     *)
(***************************************************************************)
MaxClock == 2
MaxTurns == 3
MaxRecords == 2
MaxLog == 3

(***************************************************************************)
(* Program constants                                                       *)
(***************************************************************************)
WindowSize == 10
TokenLimit == 1000
CharsPerToken == 4

DefaultModel == "deepseek/deepseek-r1:free"
OtherModel == "openai/gpt-4o-mini"
Models == {DefaultModel, OtherModel}

SystemMessage ==
    [role |-> "system", content |-> "You are maxLLM, a helpful and friendly AI assistant."]

\* Message texts the user types (after trim) and the provider returns.  Big is
\* 2000 characters long, so that two of them in one window exceed the budget.
X10 == "xxxxxxxxxx"
X100 == X10 \o X10 \o X10 \o X10 \o X10 \o X10 \o X10 \o X10 \o X10 \o X10
X1000 == X100 \o X100 \o X100 \o X100 \o X100 \o X100 \o X100 \o X100 \o X100 \o X100
Big == X1000 \o X1000
Inputs == {"", "hi", Big}
Responses == {"hello"}

Times == 1..MaxClock

NoId == <<>>
NoData == [kind |-> "absent"]

Turn(role, content) == [role |-> role, content |-> content]

(***************************************************************************)
(* Pure helpers                                                            *)
(***************************************************************************)
Min(a, b) == IF a < b THEN a ELSE b
Max(a, b) == IF a > b THEN a ELSE b

\* Array.prototype.slice(start) with a possibly negative start
Slice(s, start) ==
    LET k == IF start < 0 THEN Max(Len(s) + start, 0) ELSE Min(start, Len(s))
    IN  SubSeq(s, k + 1, Len(s))

\* A variant of buildMessages that takes the first turns instead of the last
buildMessages_TakesOldest(history, userContent) ==
    <<SystemMessage>> \o SubSeq(history, 1, Min(WindowSize, Len(history)))
                      \o <<Turn("user", userContent)>>

\* buildMessages(userContent)
buildMessages(history, userContent) ==
    <<SystemMessage>> \o Slice(history, -WindowSize) \o <<Turn("user", userContent)>>

\* m.content ? m.content.length : 0, a missing content and the empty string
\* being falsy
ContentLength(m) ==
    IF "content" \in DOMAIN m /\ m.content # "" THEN Len(m.content) ELSE 0

\* messages.reduce((sum, m) => sum + ..., 0)
RECURSIVE TotalChars(_)
TotalChars(messages) ==
    IF messages = <<>> THEN 0
    ELSE ContentLength(Head(messages)) + TotalChars(Tail(messages))

\* Math.ceil(totalChars / 4)
CeilDiv(n, d) == IF n % d = 0 THEN n \div d ELSE (n \div d) + 1

\* A variant of estimateTokens that rounds down
estimateTokens_RoundsDown(messages) == TotalChars(messages) \div CharsPerToken

estimateTokens(messages) == CeilDiv(TotalChars(messages), CharsPerToken)

\* `session-${Date.now()}`
MintId(t) == <<"session", t>>

\* JSON.stringify(data) of the snapshot object; its timestamp field, which
\* nothing reads back, is left out
Stringify(h, m) ==
    [kind |-> "json", chatHistory |-> h, currentModel |-> m]

\* a || b on strings: the empty string is falsy
OrElse(a, b) == IF a = "" THEN b ELSE a

\* A variant of LoadedModel that always falls back to the default model
LoadedModel_IgnoresSaved(saved) == DefaultModel

\* loadFromDatabase(): the chatHistory and the currentModel it leaves, given
\* the values the constructor has just set
LoadedHistory(saved) == IF saved.kind = "json" THEN saved.chatHistory ELSE <<>>
LoadedModel(saved) ==
    IF saved.kind = "json" THEN OrElse(saved.currentModel, DefaultModel) ELSE DefaultModel

(***************************************************************************)
(* History reconstruction (readAllSessions)                                *)
(***************************************************************************)
\* The keys of the Map in first-seen order of the cursor traversal
RECURSIVE SessionKeys(_)
SessionKeys(recs) ==
    IF recs = <<>> THEN <<>>
    ELSE LET front == SubSeq(recs, 1, Len(recs) - 1)
             last == recs[Len(recs)]
             keys == SessionKeys(front)
         IN  IF \E i \in 1..Len(keys) : keys[i] = last.sessionId
             THEN keys
             ELSE Append(keys, last.sessionId)

\* result.get(id): the records of one session in traversal (ascending id) order
RecordsOf(recs, id) == SelectSeq(recs, LAMBDA r : r.sessionId = id)

\* A variant of InsertByTimestamp that puts x before the elements it ties with
InsertByTimestamp_TiesFirst(s, x) ==
    LET later == {i \in 1..Len(s) : s[i].timestamp - x.timestamp >= 0}
        k == IF later = {} THEN Len(s) + 1
             ELSE CHOOSE i \in later : \A j \in later : i <= j
    IN  SubSeq(s, 1, k - 1) \o <<x>> \o SubSeq(s, k, Len(s))

\* Array.prototype.sort is stable: x, which followed every element of the
\* sorted sequence s in the input, goes before the first element that the
\* comparator puts after it.
InsertByTimestamp(s, x) ==
    LET later == {i \in 1..Len(s) : s[i].timestamp - x.timestamp > 0}
        k == IF later = {} THEN Len(s) + 1
             ELSE CHOOSE i \in later : \A j \in later : i <= j
    IN  SubSeq(s, 1, k - 1) \o <<x>> \o SubSeq(s, k, Len(s))

\* records.sort((a,b) => a.timestamp - b.timestamp)
RECURSIVE sortRecords(_)
sortRecords(recs) ==
    IF recs = <<>> THEN <<>>
    ELSE InsertByTimestamp(sortRecords(SubSeq(recs, 1, Len(recs) - 1)), recs[Len(recs)])

InsertByFirstDesc(s, x) ==
    LET later == {i \in 1..Len(s) : x.records[1].timestamp - s[i].records[1].timestamp > 0}
        k == IF later = {} THEN Len(s) + 1
             ELSE CHOOSE i \in later : \A j \in later : i <= j
    IN  SubSeq(s, 1, k - 1) \o <<x>> \o SubSeq(s, k, Len(s))

\* A variant of sortSessions that leaves the sessions in first-seen order
sortSessions_FirstSeenOrder(views) == views

\* .sort((a,b) => b.records[0]?.timestamp - a.records[0]?.timestamp)
RECURSIVE sortSessions(_)
sortSessions(views) ==
    IF views = <<>> THEN <<>>
    ELSE InsertByFirstDesc(sortSessions(SubSeq(views, 1, Len(views) - 1)), views[Len(views)])

readAllSessions(recs) ==
    LET keys == SessionKeys(recs)
        grouped == [i \in 1..Len(keys) |->
                      [sessionId |-> keys[i], records |-> sortRecords(RecordsOf(recs, keys[i]))]]
    IN  sortSessions(grouped)

(***************************************************************************)
(* Session identifier                                                      *)
(***************************************************************************)
\* A variant of startNewSession that mints an identifier on every call
startNewSession_AlwaysMints(current, force, t) == MintId(t)

\* A variant of startNewSession that mints only when there is no identifier
startNewSession_IgnoresForce(current, force, t) ==
    IF current = NoId THEN MintId(t) ELSE current

\* startNewSession(force): the identifier it leaves in this.sessionId and in
\* the localStorage slot, given the current one and the clock reading
startNewSession(current, force, t) ==
    IF force \/ current = NoId THEN MintId(t) ELSE current

(***************************************************************************)
(* Initial state: the constructor has run on a first visit                 *)
(***************************************************************************)
Init ==
    /\ apiKey \in BOOLEAN
    /\ engine \in {"available", "missing", "failing"}
    /\ now = 1
    /\ currentModel = DefaultModel
    /\ chatHistory = <<>>
    /\ isLoading = FALSE
    /\ db = "null"
    /\ sessionId = startNewSession(NoId, FALSE, 1)
    /\ lsSessionId = startNewSession(NoId, FALSE, 1)
    /\ lsData = NoData
    /\ store = <<>>
    /\ nextId = 1
    /\ openReq = IF engine = "missing" THEN "none" ELSE "pending"
    /\ inFlight = FALSE
    /\ outgoing = <<>>
    /\ lastOp = "other"
    /\ log = <<>>
    /\ resumed = FALSE
    /\ persistedFrom = 0
    /\ threw = FALSE

(***************************************************************************)
(* Building blocks of the handlers                                         *)
(***************************************************************************)
\* A variant of addRecordToDb that persists the user's turns only
addRecordToDb_UserTurnsOnly(role, content) ==
    IF db = "null" \/ role # "user"
    THEN UNCHANGED <<store, nextId>>
    ELSE /\ store' = Append(store, [id |-> nextId, sessionId |-> sessionId,
                                    timestamp |-> now, role |-> role,
                                    content |-> content])
         /\ nextId' = nextId + 1

\* addRecordToDb(role, content).  The record's model field, which nothing
\* reads back, is left out.
addRecordToDb(role, content) ==
    IF db = "null"
    THEN UNCHANGED <<store, nextId>>
    ELSE /\ store' = Append(store, [id |-> nextId, sessionId |-> sessionId,
                                    timestamp |-> now, role |-> role,
                                    content |-> content])
         /\ nextId' = nextId + 1

\* A variant of addMessage that keeps error messages in the history too
addMessage_KeepsErrors(role, content) ==
    /\ log' = Append(log, Turn(role, content))
    /\ chatHistory' = Append(chatHistory, Turn(role, content))
    /\ addRecordToDb(role, content)
    /\ persistedFrom' = IF db = "null" THEN Len(chatHistory) + 1 ELSE persistedFrom

\* A variant of addMessage that keeps only the context window in memory
addMessage_KeepsWindowOnly(role, content) ==
    /\ log' = Append(log, Turn(role, content))
    /\ IF role # "error"
       THEN /\ chatHistory' = Slice(Append(chatHistory, Turn(role, content)), -WindowSize)
            /\ addRecordToDb(role, content)
            /\ persistedFrom' = IF db = "null" THEN Len(chatHistory) + 1 ELSE persistedFrom
       ELSE UNCHANGED <<chatHistory, store, nextId, persistedFrom>>

\* addMessage(role, content), without the DOM
addMessage(role, content) ==
    /\ log' = Append(log, Turn(role, content))
    /\ IF role # "error"
       THEN /\ chatHistory' = Append(chatHistory, Turn(role, content))
            /\ addRecordToDb(role, content)
            /\ persistedFrom' = IF db = "null" THEN Len(chatHistory) + 1 ELSE persistedFrom
       ELSE UNCHANGED <<chatHistory, store, nextId, persistedFrom>>

\* saveToDatabase(), run after the handler's other assignments
saveToDatabase == lsData' = Stringify(chatHistory', currentModel')

(***************************************************************************)
(* Handlers                                                                *)
(***************************************************************************)
\* A variant of sendMessage that adds the user turn before it checks the budget
sendMessage_AddsBeforeCheck(message) ==
    IF message = "" \/ isLoading \/ ~apiKey
    THEN /\ lastOp' = "other"
         /\ UNCHANGED <<apiKey, currentModel, chatHistory, isLoading, db, sessionId,
                        lsSessionId, lsData, store, nextId, engine, openReq, inFlight,
                        outgoing, now, log, resumed, persistedFrom, threw>>
    ELSE /\ LET messages == buildMessages(chatHistory, message)
                tokenCount == estimateTokens(messages)
            IN  /\ addMessage("user", message)
                /\ IF tokenCount > TokenLimit
                   THEN /\ lastOp' = "sendRejected"
                        /\ UNCHANGED <<isLoading, inFlight, outgoing>>
                   ELSE /\ isLoading' = TRUE
                        /\ inFlight' = TRUE
                        /\ outgoing' = messages
                        /\ lastOp' = "send"
         /\ UNCHANGED <<apiKey, currentModel, db, sessionId, lsSessionId, lsData,
                        engine, openReq, now, resumed, threw>>

\* A variant of sendMessage that does not look at isLoading
sendMessage_IgnoresLoading(message) ==
    IF message = "" \/ ~apiKey
    THEN /\ lastOp' = "other"
         /\ UNCHANGED <<apiKey, currentModel, chatHistory, isLoading, db, sessionId,
                        lsSessionId, lsData, store, nextId, engine, openReq, inFlight,
                        outgoing, now, log, resumed, persistedFrom, threw>>
    ELSE /\ LET messages == buildMessages(chatHistory, message)
                tokenCount == estimateTokens(messages)
            IN  IF tokenCount > TokenLimit
                THEN /\ addMessage("error", "CLEAR CHAT")
                     /\ lastOp' = "sendRejected"
                     /\ UNCHANGED <<isLoading, inFlight, outgoing>>
                ELSE /\ addMessage("user", message)
                     /\ isLoading' = TRUE
                     /\ inFlight' = TRUE
                     /\ outgoing' = messages
                     /\ lastOp' = "send"
         /\ UNCHANGED <<apiKey, currentModel, db, sessionId, lsSessionId, lsData,
                        engine, openReq, now, resumed, threw>>

\* sendMessage() up to its await
sendMessage(message) ==
    IF message = "" \/ isLoading \/ ~apiKey
    THEN /\ lastOp' = "other"
         /\ UNCHANGED <<apiKey, currentModel, chatHistory, isLoading, db, sessionId,
                        lsSessionId, lsData, store, nextId, engine, openReq, inFlight,
                        outgoing, now, log, resumed, persistedFrom, threw>>
    ELSE /\ LET messages == buildMessages(chatHistory, message)
                tokenCount == estimateTokens(messages)
            IN  IF tokenCount > TokenLimit
                THEN /\ addMessage("error", "CLEAR CHAT")
                     /\ lastOp' = "sendRejected"
                     /\ UNCHANGED <<isLoading, inFlight, outgoing>>
                ELSE /\ addMessage("user", message)
                     /\ isLoading' = TRUE
                     /\ inFlight' = TRUE
                     /\ outgoing' = messages
                     /\ lastOp' = "send"
         /\ UNCHANGED <<apiKey, currentModel, db, sessionId, lsSessionId, lsData,
                        engine, openReq, now, resumed, threw>>

\* A variant of receiveResponse that leaves the snapshot as it was
receiveResponse_NoSave(response) ==
    /\ inFlight
    /\ addMessage("assistant", response)
    /\ isLoading' = FALSE
    /\ inFlight' = FALSE
    /\ outgoing' = <<>>
    /\ lastOp' = "reply"
    /\ UNCHANGED <<apiKey, currentModel, db, sessionId, lsSessionId, lsData, engine,
                   openReq, now, resumed, threw>>

\* sendMessage() after its await, the provider having answered
receiveResponse(response) ==
    /\ inFlight
    /\ addMessage("assistant", response)
    /\ isLoading' = FALSE
    /\ inFlight' = FALSE
    /\ outgoing' = <<>>
    /\ currentModel' = currentModel
    /\ saveToDatabase
    /\ lastOp' = "reply"
    /\ UNCHANGED <<apiKey, db, sessionId, lsSessionId, engine, openReq,
                   now, resumed, threw>>

\* sendMessage() after its await, callOpenRouterAPI having thrown
receiveError ==
    /\ inFlight
    /\ addMessage("error", "Error: API request failed")
    /\ isLoading' = FALSE
    /\ inFlight' = FALSE
    /\ outgoing' = <<>>
    /\ currentModel' = currentModel
    /\ saveToDatabase
    /\ lastOp' = "failure"
    /\ UNCHANGED <<apiKey, db, sessionId, lsSessionId, engine, openReq,
                   now, resumed, threw>>

\* A variant of the modelSelect change listener that does not save
selectModel_NoSave(m) ==
    /\ m # currentModel
    /\ currentModel' = m
    /\ lastOp' = "other"
    /\ UNCHANGED <<apiKey, chatHistory, isLoading, db, sessionId, lsSessionId, lsData,
                   store, nextId, engine, openReq, inFlight, outgoing, now, log,
                   resumed, persistedFrom, threw>>

\* the modelSelect change listener
selectModel(m) ==
    /\ m # currentModel
    /\ currentModel' = m
    /\ chatHistory' = chatHistory
    /\ saveToDatabase
    /\ lastOp' = "other"
    /\ UNCHANGED <<apiKey, isLoading, db, sessionId, lsSessionId, store, nextId,
                   engine, openReq, inFlight, outgoing, now, log, resumed,
                   persistedFrom, threw>>

\* A variant of clearChat that also empties the record store
clearChat_ClearsStore ==
    /\ chatHistory' = <<>>
    /\ currentModel' = currentModel
    /\ saveToDatabase
    /\ sessionId' = startNewSession(sessionId, TRUE, now)
    /\ lsSessionId' = startNewSession(sessionId, TRUE, now)
    /\ store' = <<>>
    /\ log' = <<>>
    /\ resumed' = FALSE
    /\ persistedFrom' = 0
    /\ lastOp' = "clearChat"
    /\ UNCHANGED <<apiKey, isLoading, db, nextId, engine, openReq, inFlight,
                   outgoing, now, threw>>

\* A variant of clearChat that saves the snapshot before it empties the history
clearChat_SavesBeforeClearing ==
    /\ lsData' = Stringify(chatHistory, currentModel)
    /\ chatHistory' = <<>>
    /\ currentModel' = currentModel
    /\ sessionId' = startNewSession(sessionId, TRUE, now)
    /\ lsSessionId' = startNewSession(sessionId, TRUE, now)
    /\ log' = <<>>
    /\ resumed' = FALSE
    /\ persistedFrom' = 0
    /\ lastOp' = "clearChat"
    /\ UNCHANGED <<apiKey, isLoading, db, store, nextId, engine, openReq, inFlight,
                   outgoing, now, threw>>

\* clearChat()
clearChat ==
    /\ chatHistory' = <<>>
    /\ currentModel' = currentModel
    /\ saveToDatabase
    /\ sessionId' = startNewSession(sessionId, TRUE, now)
    /\ lsSessionId' = startNewSession(sessionId, TRUE, now)
    /\ log' = <<>>
    /\ resumed' = FALSE
    /\ persistedFrom' = 0
    /\ lastOp' = "clearChat"
    /\ UNCHANGED <<apiKey, isLoading, db, store, nextId, engine, openReq, inFlight,
                   outgoing, now, threw>>

\* What showHistory() hands to renderHistory: the result of readAllSessions()
\* over the store as it is; nothing when the handle is not open.
listSessionHistory == IF db = "null" THEN <<>> ELSE readAllSessions(store)

\* A variant of showHistory that reads the store without checking the handle:
\* this.db.transaction on null raises a TypeError
showHistory_NoHandleCheck ==
    /\ lastOp' = "other"
    /\ threw' = (threw \/ db = "null")
    /\ UNCHANGED <<apiKey, currentModel, chatHistory, isLoading, db, sessionId,
                   lsSessionId, lsData, store, nextId, engine, openReq, inFlight,
                   outgoing, now, log, resumed, persistedFrom>>

\* showHistory(): it reads the store and writes only the DOM.  With no open
\* handle it alerts and returns.
showHistory ==
    /\ lastOp' = "other"
    /\ UNCHANGED <<apiKey, currentModel, chatHistory, isLoading, db, sessionId,
                   lsSessionId, lsData, store, nextId, engine, openReq, inFlight,
                   outgoing, now, log, resumed, persistedFrom, threw>>

\* request.onsuccess of initDatabase()
dbOpenSuccess ==
    /\ openReq = "pending"
    /\ engine = "available"
    /\ db' = "open"
    /\ openReq' = "none"
    /\ lastOp' = "other"
    /\ UNCHANGED <<apiKey, currentModel, chatHistory, isLoading, sessionId, lsSessionId,
                   lsData, store, nextId, engine, inFlight, outgoing, now,
                   log, resumed, persistedFrom, threw>>

\* request.onerror of initDatabase()
dbOpenError ==
    /\ openReq = "pending"
    /\ engine = "failing"
    /\ openReq' = "none"
    /\ lastOp' = "other"
    /\ UNCHANGED <<apiKey, currentModel, chatHistory, isLoading, db, sessionId,
                   lsSessionId, lsData, store, nextId, engine, inFlight, outgoing,
                   now, log, resumed, persistedFrom, threw>>

\* The page is loaded again: a new MaxLLMChatbot is constructed over the
\* persisted state, and the old object goes with its pending request.
Reload ==
    /\ currentModel' = LoadedModel(lsData)
    /\ chatHistory' = LoadedHistory(lsData)
    /\ isLoading' = FALSE
    /\ db' = "null"
    /\ sessionId' = startNewSession(lsSessionId, FALSE, now)
    /\ lsSessionId' = startNewSession(lsSessionId, FALSE, now)
    /\ openReq' = IF engine = "missing" THEN "none" ELSE "pending"
    /\ inFlight' = FALSE
    /\ outgoing' = <<>>
    /\ lastOp' = "other"
    /\ log' = <<>>
    /\ resumed' = TRUE
    /\ persistedFrom' = Len(LoadedHistory(lsData))
    /\ UNCHANGED <<apiKey, lsData, store, nextId, engine, now, threw>>

\* localStorage['maxllm_data'] is written or removed from outside the page
\* (another script of the origin, the browser's storage tools): the slot then
\* holds text that JSON.parse rejects, or JSON whose chatHistory array has a
\* null where a turn should be, or nothing.
NullElement == [null |-> TRUE]
MalformedHistories == {<<NullElement>>, <<Turn("user", "hi"), NullElement>>}
CorruptPayloads ==
    {[kind |-> "text"]}
        \cup {[kind |-> "json", chatHistory |-> h, currentModel |-> m] :
                 h \in MalformedHistories, m \in Models}

snapshotOverwritten(payload) ==
    /\ lsData # payload
    /\ lsData' = payload
    /\ lastOp' = "other"
    /\ UNCHANGED <<apiKey, currentModel, chatHistory, isLoading, db, sessionId,
                   lsSessionId, store, nextId, engine, openReq, inFlight, outgoing,
                   now, log, resumed, persistedFrom, threw>>

\* Date.now() is the wall clock: it advances, and it can be set back.
Tick ==
    /\ now < MaxClock
    /\ now' = now + 1
    /\ lastOp' = "other"
    /\ UNCHANGED <<apiKey, currentModel, chatHistory, isLoading, db, sessionId,
                   lsSessionId, lsData, store, nextId, engine, openReq, inFlight,
                   outgoing, log, resumed, persistedFrom, threw>>

ClockSetBack ==
    /\ \E t \in Times : t < now /\ now' = t
    /\ lastOp' = "other"
    /\ UNCHANGED <<apiKey, currentModel, chatHistory, isLoading, db, sessionId,
                   lsSessionId, lsData, store, nextId, engine, openReq, inFlight,
                   outgoing, log, resumed, persistedFrom, threw>>

(***************************************************************************)
(* Specifications                                                          *)
(***************************************************************************)
\* A send that sendMessage() does not ignore
Accepted(message) == ~(message = "" \/ isLoading \/ ~apiKey)

\* The bounds of the model leave room for the turn that ends an exchange
Room ==
    /\ Len(chatHistory) + 1 <= MaxTurns
    /\ Len(log) + 1 <= MaxLog
    /\ Len(store) + 1 <= MaxRecords

Handlers ==
    \/ \E message \in Inputs : sendMessage(message) /\ (Accepted(message) => Room')
    \/ \E response \in Responses : receiveResponse(response)
    \/ receiveError
    \/ clearChat
    \/ showHistory
    \/ dbOpenSuccess
    \/ dbOpenError

\* The program with page reloads and model changes, under a clock that only
\* advances
Next ==
    \/ Handlers
    \/ \E m \in Models : selectModel(m)
    \/ Reload
    \/ Tick

Spec == Init /\ [][Next]_vars

\* One page visit under a clock that can also be set back
NextSkew ==
    \/ Handlers
    \/ Tick
    \/ ClockSetBack

SpecSkew == Init /\ [][NextSkew]_vars

\* One page visit with short messages, long enough for Live History to
\* outgrow the context window
MaxLongTurns == 12
MaxLongLog == 13
MaxLongRecords == 14

LongInputs == {"hi"}

LongRoom ==
    /\ Len(chatHistory) + 1 <= MaxLongTurns
    /\ Len(log) + 1 <= MaxLongLog
    /\ Len(store) + 1 <= MaxLongRecords

NextLong ==
    \/ \E message \in LongInputs : sendMessage(message) /\ (Accepted(message) => LongRoom')
    \/ \E response \in Responses : receiveResponse(response)
    \/ receiveError
    \/ clearChat
    \/ dbOpenSuccess
    \/ dbOpenError

SpecLong == Init /\ [][NextLong]_vars

\* The context window builder over every history a loaded snapshot can put in
\* memory: the page has just been loaded, and the user sends one message
MaxBuildTurns == 11

BuildTurns == {Turn("user", "hi"), Turn("assistant", "hello")}
BuildInputs == {"new"}

BuildHistories == UNION {[1..n -> BuildTurns] : n \in 0..MaxBuildTurns}

InitBuild ==
    /\ apiKey = TRUE
    /\ engine = "missing"
    /\ now = 1
    /\ chatHistory \in BuildHistories
    /\ lsData = Stringify(chatHistory, DefaultModel)
    /\ currentModel = DefaultModel
    /\ isLoading = FALSE
    /\ db = "null"
    /\ sessionId = MintId(1)
    /\ lsSessionId = MintId(1)
    /\ store = <<>>
    /\ nextId = 1
    /\ openReq = "none"
    /\ inFlight = FALSE
    /\ outgoing = <<>>
    /\ lastOp = "other"
    /\ log = <<>>
    /\ resumed = TRUE
    /\ persistedFrom = Len(chatHistory)
    /\ threw = FALSE

NextBuild ==
    \/ \E message \in BuildInputs :
          sendMessage(message) /\ (Accepted(message) => Len(chatHistory) <= MaxBuildTurns)
    \/ \E response \in Responses : receiveResponse(response)
    \/ receiveError

SpecBuild == InitBuild /\ [][NextBuild]_vars

\* The snapshot written and read back: page visits in which the model select
\* also offers an option whose value is the empty string
RoundModels == Models \cup {""}

NextRound ==
    \/ Handlers
    \/ \E m \in RoundModels : selectModel(m)
    \/ Reload

SpecRound == Init /\ [][NextRound]_vars

\* Page loads over a snapshot slot that was damaged or removed.  The page is
\* followed through its loads, model changes and clears only.
NextCorrupt ==
    \/ \E payload \in CorruptPayloads \cup {NoData} : snapshotOverwritten(payload)
    \/ Reload
    \/ \E m \in Models : selectModel(m)
    \/ clearChat
    \/ dbOpenSuccess
    \/ dbOpenError

SpecCorrupt == Init /\ [][NextCorrupt]_vars

\* The size estimate over histories a loaded snapshot can put in memory,
\* turns with long, empty and missing contents among them: the page has just
\* been loaded, and the user sends messages
MaxEstimateTurns == 3
MaxEstimateLog == 3

EstimateTurns ==
    {Turn("user", "hi"), Turn("assistant", X1000), Turn("assistant", ""), [role |-> "user"]}
EstimateInputs == {"a", "abcd", "abcde", Big}

EstimateHistories == UNION {[1..n -> EstimateTurns] : n \in 0..MaxEstimateTurns}

InitEstimate ==
    /\ apiKey = TRUE
    /\ engine = "missing"
    /\ now = 1
    /\ chatHistory \in EstimateHistories
    /\ lsData = Stringify(chatHistory, DefaultModel)
    /\ currentModel = DefaultModel
    /\ isLoading = FALSE
    /\ db = "null"
    /\ sessionId = MintId(1)
    /\ lsSessionId = MintId(1)
    /\ store = <<>>
    /\ nextId = 1
    /\ openReq = "none"
    /\ inFlight = FALSE
    /\ outgoing = <<>>
    /\ lastOp = "other"
    /\ log = <<>>
    /\ resumed = TRUE
    /\ persistedFrom = Len(chatHistory)
    /\ threw = FALSE

NextEstimate ==
    \/ \E message \in EstimateInputs :
          sendMessage(message) /\ (Accepted(message) => Len(log') <= MaxEstimateLog)
    \/ receiveError

SpecEstimate == InitEstimate /\ [][NextEstimate]_vars

\* The history view over every store content that earlier visits can have
\* left, under clocks that were set back in between: the page has just been
\* loaded, the store opens, and the user looks at the history and has one
\* exchange
MaxStoreRecords == 3

StoredRecords(n) ==
    [id : {n}, sessionId : {MintId(t) : t \in Times}, timestamp : Times,
     role : {"user"}, content : {"hi"}]

StoreContents ==
    UNION {{s \in [1..n -> UNION {StoredRecords(i) : i \in 1..n}] :
               \A i \in 1..n : s[i].id = i} : n \in 0..MaxStoreRecords}

InitReconstruct ==
    /\ apiKey = TRUE
    /\ engine = "available"
    /\ now \in Times
    /\ store \in StoreContents
    /\ nextId = Len(store) + 1
    /\ chatHistory = <<>>
    /\ lsData = NoData
    /\ currentModel = DefaultModel
    /\ isLoading = FALSE
    /\ db = "null"
    /\ sessionId = MintId(1)
    /\ lsSessionId = MintId(1)
    /\ openReq = "pending"
    /\ inFlight = FALSE
    /\ outgoing = <<>>
    /\ lastOp = "other"
    /\ log = <<>>
    /\ resumed = TRUE
    /\ persistedFrom = 0
    /\ threw = FALSE

NextReconstruct ==
    \/ dbOpenSuccess
    \/ showHistory
    \/ \E message \in LongInputs :
          sendMessage(message) /\ (Accepted(message) => Len(log') = 1)
    \/ \E response \in Responses : receiveResponse(response)

SpecReconstruct == InitReconstruct /\ [][NextReconstruct]_vars

\* One page visit in which the provider's promise always settles: fetch
\* resolves or rejects, and the code after the await then runs
Settle ==
    \/ \E response \in Responses : receiveResponse(response)
    \/ receiveError

SpecLive == Init /\ [][Handlers]_vars /\ WF_vars(Settle)

TypeOK ==
    /\ apiKey \in BOOLEAN
    /\ currentModel \in Models
    /\ isLoading \in BOOLEAN
    /\ inFlight = isLoading
    /\ db \in {"null", "open"}
    /\ now \in Times
    /\ nextId = Len(store) + 1
    /\ sessionId = lsSessionId

(***************************************************************************)
(* Claims                                                                  *)
(***************************************************************************)
NonError(calls) == SelectSeq(calls, LAMBDA t : t.role # "error")
HasError(calls) == \E i \in 1..Len(calls) : calls[i].role = "error"

\* C1: as long as the page has not been reloaded since the last clearChat,
\* chatHistory is exactly the sequence of the non-error addMessage calls made
\* since that clearChat, in call order: nothing dropped, duplicated, reordered
\* or cut to the context window.
C1_LiveHistoryIsAppendLog == ~resumed => chatHistory = NonError(log)

\* C1 witness: more turns than the context window holds, an error call among
\* them, in a session that began with a clearChat after earlier records.
C1_Witness ==
    /\ ~resumed
    /\ Len(chatHistory) > WindowSize
    /\ HasError(log)
    /\ Len(store) > Len(chatHistory)

Front(q) == SubSeq(q, 1, Len(q) - 1)

C3_ResetLeavesEmpty ==
    lastOp = "clearChat" =>
        /\ chatHistory = <<>>
        /\ lsData = NoData \/ LoadedHistory(lsData) = <<>>

\* C3 witness: a clearChat has just ended a session that had persisted turns,
\* and the snapshot slot is written.
C3_Witness ==
    /\ lastOp = "clearChat"
    /\ lsData # NoData
    /\ \E i \in 1..Len(store) : store[i].role = "assistant"

C5_RejectedSendHasNoEffect ==
    [][/\ lastOp' = "sendRejected" =>
             /\ UNCHANGED <<chatHistory, store, nextId, lsData, sessionId, lsSessionId>>
             /\ UNCHANGED <<isLoading, inFlight, outgoing>>
             /\ ~isLoading' /\ ~inFlight'
       /\ lastOp' = "send" => TotalChars(outgoing') <= 4000]_vars

\* C5 witness: a send has just been rejected in a conversation that has a
\* turn in memory and a record in the store.
C5_Witness ==
    /\ lastOp = "sendRejected"
    /\ chatHistory # <<>>
    /\ store # <<>>

\* C6: the messages a send hands to the provider, built from the history h
\* and the new content c, are the system message, then the last
\* min(10, |h|) turns of h in their order, then the user turn c: at most 12
\* messages, and elements 2..11 of h when |h| = 11.
C6_BuildIsSystemSuffixNew ==
    lastOp = "send" =>
        LET h == Front(chatHistory)
            c == chatHistory[Len(chatHistory)].content
            n == IF Len(h) < 10 THEN Len(h) ELSE 10
        IN  /\ Len(outgoing) = n + 2
            /\ Len(outgoing) <= 12
            /\ outgoing[1] = SystemMessage
            /\ \A i \in 1..n : outgoing[1 + i] = h[Len(h) - n + i]
            /\ outgoing[n + 2] = [role |-> "user", content |-> c]
            /\ Len(h) = 11 => \A i \in 2..11 : outgoing[i] = h[i]

\* C6 witness: a send over a history of 11 turns whose oldest turn differs
\* from the second one.
C6_Witness ==
    /\ lastOp = "send"
    /\ Len(chatHistory) = 12
    /\ chatHistory[1] # chatHistory[2]
    /\ Len(outgoing) = 12

Project(recs) == [i \in 1..Len(recs) |-> Turn(recs[i].role, recs[i].content)]

IsSuffix(a, b) == Len(a) <= Len(b) /\ SubSeq(b, Len(b) - Len(a) + 1, Len(b)) = a

\* the turns of chatHistory that were added while the store handle was open
AddedWhileOpen == SubSeq(chatHistory, persistedFrom + 1, Len(chatHistory))

\* the records persisted under the current session identifier, by ascending id
SessionRecords == RecordsOf(store, sessionId)

\* C7 as claimed: whenever IndexedDB is available, chatHistory is a suffix of
\* (or all of) the user/assistant records persisted under the current session
\* identifier, in ascending id order.
C7_LiveHistoryIsStoreSuffix ==
    engine = "available" => IsSuffix(chatHistory, Project(SessionRecords))

\* C7 as amended: the turns added to chatHistory while the store handle was
\* open, since the last clearChat or page load, are in order the newest
\* records persisted under the current session identifier.  Turns added
\* before the open completed, or loaded from the snapshot, need not have one.
C7_OpenAppendsAreStoreSuffix == IsSuffix(AddedWhileOpen, Project(SessionRecords))

\* C7 witness: a history whose first turn was added before the handle opened
\* and whose later turns were added after.
C7_Witness ==
    /\ db = "open"
    /\ persistedFrom > 0
    /\ Len(chatHistory) >= persistedFrom + 2
    /\ ~IsSuffix(chatHistory, Project(SessionRecords))

NonDecreasing(recs) ==
    \A i \in 1..Len(recs) : \A j \in 1..Len(recs) :
        i < j => recs[i].timestamp <= recs[j].timestamp

ViewsOfSession == SelectSeq(listSessionHistory, LAMBDA v : v.sessionId = sessionId)

\* every turn of a non-empty chatHistory was added during this page visit,
\* after the last clearChat, with the store handle open
AllAddedWhileOpen ==
    /\ db = "open"
    /\ ~resumed
    /\ persistedFrom = 0
    /\ chatHistory # <<>>

\* C8 as claimed: when every turn of chatHistory was added with the store
\* open, and the session has no other record, showHistory lists exactly one
\* session with the current identifier and its records are those turns in
\* the order they were added, whatever their timestamps.
C8_AnyTimestampsKeepAppendOrder ==
    (AllAddedWhileOpen /\ Len(SessionRecords) = Len(chatHistory)) =>
        /\ Len(ViewsOfSession) = 1
        /\ Project(ViewsOfSession[1].records) = chatHistory

\* C8 as amended: the same, provided the timestamps of the session's records
\* do not decrease in the order they were added; equal timestamps keep the
\* ascending id order.  The session's records then end with the turns of
\* chatHistory, and are exactly those turns when no earlier session shares
\* the identifier.
C8_NonDecreasingTimestampsKeepAppendOrder ==
    (AllAddedWhileOpen /\ NonDecreasing(SessionRecords)) =>
        /\ Len(ViewsOfSession) = 1
        /\ ViewsOfSession[1].records = SessionRecords
        /\ IsSuffix(chatHistory, Project(ViewsOfSession[1].records))
        /\ Len(SessionRecords) = Len(chatHistory) =>
               Project(ViewsOfSession[1].records) = chatHistory

\* C8 witness: two turns added with the store open at the same clock reading.
C8_Witness ==
    /\ AllAddedWhileOpen
    /\ Len(chatHistory) = 2
    /\ Len(SessionRecords) = 2
    /\ SessionRecords[1].timestamp = SessionRecords[2].timestamp
    /\ Project(ViewsOfSession[1].records) = chatHistory

\* C9 as claimed: clearChat always leaves a session identifier different from
\* the one before it, in memory and in the localStorage slot.
C9_ResetMintsDifferentId ==
    [][lastOp' = "clearChat" =>
          sessionId' # sessionId /\ lsSessionId' = sessionId']_vars

\* C9 as amended: clearChat leaves, in memory and in the localStorage slot,
\* the identifier made from the clock reading; it differs from the one before
\* exactly when that one was made from another clock reading.
C9_ResetMintsIdOfClockReading ==
    [][lastOp' = "clearChat" =>
          /\ sessionId' = <<"session", now>>
          /\ lsSessionId' = sessionId'
          /\ (sessionId' # sessionId) <=> (sessionId[2] # now)]_vars

\* C9 witness: a clearChat after the clock advanced has installed a new
\* identifier in both places.
C9_Witness ==
    /\ lastOp = "clearChat"
    /\ sessionId = <<"session", 2>>
    /\ lsSessionId = sessionId
    /\ \E i \in 1..Len(store) : store[i].sessionId # sessionId

\* C10: when IndexedDB is missing or its open fails, the handle stays null,
\* no record is written, showHistory has no session to list, no handler
\* raises, and chatHistory still is the sequence of the non-error addMessage
\* calls.
C10_UnavailableStoreDegrades ==
    engine # "available" =>
        /\ db = "null"
        /\ store = <<>>
        /\ listSessionHistory = <<>>
        /\ ~threw
        /\ ~resumed => chatHistory = NonError(log)

\* C10 witness: without IndexedDB, an exchange and a failed send are in the
\* log and the turns are in memory.
C10_Witness ==
    /\ engine # "available"
    /\ openReq = "none"
    /\ ~resumed
    /\ Len(chatHistory) >= 2
    /\ HasError(log)

NoErrorRole(turns) == \A i \in 1..Len(turns) : turns[i].role # "error"

\* C11: an addMessage call with role error, that of a rejected send and that
\* of a failed request, leaves chatHistory and the record store as they were
\* and does not write the snapshot slot: a rejected send leaves the slot
\* untouched, and the save that ends a failed request writes the unchanged
\* chatHistory.  Hence no turn with role error is ever in chatHistory, in the
\* store, in the snapshot or among the messages handed to the provider.
C11_ErrorTurnsAreNotKept ==
    [][/\ lastOp' \in {"sendRejected", "failure"} =>
             /\ log' = Append(log, log'[Len(log')])
             /\ log'[Len(log')].role = "error"
             /\ UNCHANGED <<chatHistory, store, nextId>>
       /\ lastOp' = "sendRejected" => lsData' = lsData
       /\ lastOp' = "failure" => LoadedHistory(lsData') = chatHistory
       /\ NoErrorRole(chatHistory')
       /\ NoErrorRole(store')
       /\ NoErrorRole(LoadedHistory(lsData'))
       /\ NoErrorRole(outgoing')]_vars

\* C11 witness: a request has just failed in a conversation that has turns in
\* memory, records in the store and a written snapshot.
C11_Witness ==
    /\ lastOp = "failure"
    /\ HasError(log)
    /\ chatHistory # <<>>
    /\ store # <<>>
    /\ LoadedHistory(lsData) = chatHistory

\* the snapshot slot holds the pair (h, m) that a saveToDatabase() wrote
Holds(slot, h, m) == slot = [kind |-> "json", chatHistory |-> h, currentModel |-> m]

\* the step is the first page load since the last clearChat
FirstReload == ~resumed /\ resumed'

\* C12 as claimed: a page load over the snapshot that saveToDatabase() wrote
\* for the history h and the model m leaves chatHistory = h and
\* currentModel = m, for every h and m, the empty history and the empty model
\* string included.
C12_LoadReturnsSavedPair ==
    [][\A m \in RoundModels :
          (FirstReload /\ lsData.kind = "json" /\ Holds(lsData, lsData.chatHistory, m)) =>
              chatHistory' = lsData.chatHistory /\ currentModel' = m]_vars

\* C12 as amended: every write of the snapshot slot replaces it by the pair
\* of chatHistory and currentModel at that moment; a page load over the
\* snapshot of (h, m) leaves chatHistory = h, the empty history included, and
\* currentModel = m when m is not the empty string; an empty model string is
\* read back as the default model.
C12_LoadReturnsSavedPairOrDefaultModel ==
    [][/\ lsData' # lsData => Holds(lsData', chatHistory', currentModel')
       /\ \A m \in RoundModels :
             (FirstReload /\ lsData.kind = "json" /\ Holds(lsData, lsData.chatHistory, m)) =>
                 /\ chatHistory' = lsData.chatHistory
                 /\ currentModel' = IF m = "" THEN DefaultModel ELSE m]_vars

\* C12 witness: the page was loaded over a snapshot written a second time,
\* holding two turns and the empty model string; the turns were read back and
\* the model is the default one.
C12_Witness ==
    /\ resumed
    /\ log = <<>>
    /\ Holds(lsData, chatHistory, "")
    /\ Len(chatHistory) = 2
    /\ currentModel = DefaultModel

\* every element of the history is a turn: an object with a role and a content
WellFormed(h) == \A i \in 1..Len(h) : DOMAIN h[i] = {"role", "content"}

\* the slot is absent, or holds text that does not parse, or holds JSON whose
\* history is not a sequence of turns
AbsentOrCorrupt(slot) ==
    \/ slot.kind \in {"absent", "text"}
    \/ slot.kind = "json" /\ ~WellFormed(slot.chatHistory)

\* C13 as claimed: a page load over an absent or corrupted snapshot slot
\* raises nothing and leaves an empty chatHistory and the default model;
\* chatHistory never holds a malformed value.
C13_CorruptSnapshotLoadsEmpty ==
    [][/\ (FirstReload /\ AbsentOrCorrupt(lsData)) =>
             /\ ~threw'
             /\ chatHistory' = <<>>
             /\ currentModel' = DefaultModel
       /\ WellFormed(chatHistory')]_vars

\* the sum of the content lengths of the messages, a message without content
\* counting as 0
RECURSIVE SumOfLengths(_)
SumOfLengths(ms) ==
    IF ms = <<>> THEN 0
    ELSE LET m == ms[Len(ms)]
         IN  SumOfLengths(SubSeq(ms, 1, Len(ms) - 1))
                 + (IF "content" \in DOMAIN m THEN Len(m.content) ELSE 0)

\* the message sequences at hand in a state: the ones a send would build, the
\* one handed to the provider, the history itself, and none
SequencesAtHand ==
    {buildMessages(chatHistory, c) : c \in EstimateInputs}
        \cup {outgoing, chatHistory, <<>>}

\* C14: estimateTokens(messages) is the least integer that is at least a
\* quarter of the sum S of the content lengths, a message without content
\* counting as 0; it is 0 for the empty sequence; and of two message
\* sequences the one with the smaller or equal S has the smaller or equal
\* estimate.
C14_EstimateIsCeilingOfQuarter ==
    /\ estimateTokens(<<>>) = 0
    /\ \A ms \in SequencesAtHand :
          /\ 4 * estimateTokens(ms) >= SumOfLengths(ms)
          /\ 4 * (estimateTokens(ms) - 1) < SumOfLengths(ms)
    /\ \A m1 \in SequencesAtHand : \A m2 \in SequencesAtHand :
          SumOfLengths(m1) <= SumOfLengths(m2) => estimateTokens(m1) <= estimateTokens(m2)

\* C14 witness: a send has handed over messages of which one has no content
\* and one an empty content, with a sum of lengths that is no multiple of 4.
C14_Witness ==
    /\ lastOp = "send"
    /\ \E i \in 1..Len(outgoing) : "content" \notin DOMAIN outgoing[i]
    /\ \E i \in 1..Len(outgoing) : "content" \in DOMAIN outgoing[i] /\ outgoing[i].content = ""
    /\ SumOfLengths(outgoing) % 4 = 1
    /\ SumOfLengths(outgoing) > 1000

\* the number of records that the views hold together
RECURSIVE CountRecords(_)
CountRecords(views) ==
    IF views = <<>> THEN 0
    ELSE Len(views[1].records) + CountRecords(Tail(views))

\* C15: with the store open, the sessions that showHistory lists are a
\* partition of the stored records into non-empty views, one per distinct
\* sessionId; within a view the records are in ascending timestamp order,
\* equal timestamps in ascending id order; the views are in descending order
\* of their first record's timestamp, which is the least timestamp of the
\* session.
C15_ReconstructPartitionsAndOrders ==
    db = "open" =>
        LET views == listSessionHistory
        IN  /\ CountRecords(views) = Len(store)
            /\ \A k \in 1..Len(store) :
                  \E v \in 1..Len(views) :
                      /\ views[v].sessionId = store[k].sessionId
                      /\ \E i \in 1..Len(views[v].records) : views[v].records[i] = store[k]
            /\ \A v \in 1..Len(views) : \A w \in 1..Len(views) :
                  v # w => views[v].sessionId # views[w].sessionId
            /\ \A v \in 1..Len(views) :
                  LET recs == views[v].records
                  IN  /\ recs # <<>>
                      /\ \A i \in 1..Len(recs) : recs[i].sessionId = views[v].sessionId
                      /\ \A i \in 1..Len(recs) : \A j \in 1..Len(recs) :
                            i < j =>
                                \/ recs[i].timestamp < recs[j].timestamp
                                \/ /\ recs[i].timestamp = recs[j].timestamp
                                   /\ recs[i].id < recs[j].id
                      /\ \A k \in 1..Len(store) :
                            store[k].sessionId = views[v].sessionId =>
                                recs[1].timestamp <= store[k].timestamp
            /\ \A v \in 1..Len(views) : \A w \in 1..Len(views) :
                  v < w => views[v].records[1].timestamp >= views[w].records[1].timestamp

\* C15 witness: showHistory lists two sessions; the first one listed was
\* written later than the other, and its two records were written against
\* the order of their timestamps.
C15_Witness ==
    /\ db = "open"
    /\ Len(listSessionHistory) = 2
    /\ Len(listSessionHistory[1].records) = 2
    /\ listSessionHistory[1].records[1].id > listSessionHistory[1].records[2].id
    /\ listSessionHistory[1].records[1].id > listSessionHistory[2].records[1].id

\* C16: while a request is pending no send starts a second one or adds a
\* message; every step taken meanwhile, a further send attempt included,
\* other than the reply, the failure and clearChat, leaves chatHistory, the
\* store, the snapshot and the loading flag as they were; and, the provider's
\* promise settling, every pending request is followed by a state in which
\* the loading flag is clear.
C16_OneRequestAtATime ==
    /\ [][isLoading =>
              /\ lastOp' \notin {"send", "sendRejected"}
              /\ lastOp' \notin {"reply", "failure", "clearChat"} =>
                     UNCHANGED <<chatHistory, store, nextId, lsData, isLoading,
                                 inFlight, outgoing>>
              /\ lastOp' \in {"reply", "failure"} => ~isLoading' /\ ~inFlight']_vars
    /\ [](isLoading <=> inFlight)
    /\ isLoading ~> ~isLoading

\* C16 witness: a request is pending, with a record of its user turn in the
\* store, and a step that is no reply, failure or clearChat was taken
\* meanwhile.
C16_Witness ==
    /\ isLoading
    /\ inFlight
    /\ lastOp = "other"
    /\ db = "open"
    /\ store # <<>>
    /\ store[Len(store)] = [id |-> Len(store), sessionId |-> sessionId, timestamp |-> now,
                            role |-> "user", content |-> "hi"]

\* C17 as claimed: the record of a reply carries the session identifier of
\* the record of the user turn that asked for it, and the reply follows that
\* user turn in chatHistory, also when clearChat ran while the request was
\* pending.  Within one page visit the store handle stays open once it is,
\* and nothing is recorded while a request is pending, so the record before
\* the reply's, when it is a user turn's, is that of the turn that asked.
C17_ReplyRecordedWithItsUserTurn ==
    (lastOp = "reply" /\ Len(store) >= 2 /\ store[Len(store) - 1].role = "user") =>
        /\ store[Len(store)].role = "assistant"
        /\ store[Len(store)].sessionId = store[Len(store) - 1].sessionId
        /\ Len(chatHistory) >= 2
        /\ chatHistory[Len(chatHistory) - 1] =
               Turn("user", store[Len(store) - 1].content)

C19_SessionIdIsPersistedAndKept ==
    [][/\ sessionId # NoId /\ sessionId = lsSessionId
       /\ sessionId' # NoId /\ sessionId' = lsSessionId'
       /\ \A t \in Times : startNewSession(sessionId', FALSE, t) = sessionId'
       /\ lastOp' # "clearChat" => UNCHANGED <<sessionId, lsSessionId>>]_vars

\* C19 witness: the page was loaded again after a record was written at
\* clock reading 2, and the identifier is still the one minted at reading 1.
C19_Witness ==
    /\ resumed
    /\ db = "null"
    /\ now = 2
    /\ sessionId = <<"session", 1>>
    /\ lsSessionId = sessionId
    /\ \E i \in 1..Len(store) : store[i].timestamp = 2 /\ store[i].sessionId = sessionId

====
